---- MODULE Spec2Model ----
(***************************************************************************)
(* A model of secure_string_header_only.h: the bounds-checking wrappers    *)
(* around memcpy, strcat, memcmp and memset, and the violation handler     *)
(* that prints a diagnostic and aborts the process.                        *)
(*                                                                         *)
(* Memory is a record of two byte regions, "dst" and "src".  A pointer is  *)
(* BAD_PTR or the name of a region.  C index i is sequence index i + 1.    *)
(* size_t is SizeBits wide and its arithmetic wraps modulo 2^SizeBits.     *)
(* The region "dst" holds the destination object (its first cap bytes)     *)
(* followed by the memory adjacent to it, so that a write past the object  *)
(* is visible.  Undefined behaviour of the C library (a null pointer, a    *)
(* write past the object) is a choice between the outcomes a build shows:  *)
(* the process is killed by a fault, or the access goes through.           *)
(* A source that is not null holds SIZE_MAX readable bytes, and a declared *)
(* source size never exceeds that; source and destination do not overlap.  *)
(***************************************************************************)
EXTENDS Integers, Sequences, FiniteSets, TLC

\* ---------------------------------------------------------------- bounds

\* Width of size_t in bits.
SizeBits == 2
\* Number of leading bytes of the memcmp operands that are enumerated.
CmpLen == 2
\* Number of threads calling concurrently.
NThreads == 2

SizeMod == 2 ^ SizeBits
SIZE_MAX == SizeMod - 1
SizeT == 0 .. SIZE_MAX

\* size_t addition and subtraction
AddSz(a, b) == (a + b) % SizeMod
SubSz(a, b) == (a - b) % SizeMod

\* ------------------------------------------------------- program constants

ERR_POTENTIAL_BUFFER_OVERFLOW == 34
ERR_POTENTIAL_INTEGER_OVERFLOW == 75
BAD_PTR == "NULL"

\* ------------------------------------------------------------------ state

VARIABLES
  pc,      \* "ready": the call is about to be made; "done": it is over
  op,      \* the function called
  args,    \* its arguments
  heap0,   \* memory when the call is made
  heap,    \* memory now
  out,     \* how the call ended: status, return value, stderr, bytes written
  proc,    \* concurrent callers: "running" or "terminated"
  thr,     \* concurrent callers: each thread's call and position in it
  stderr   \* concurrent callers: what reached the diagnostic sink, in order

vars == <<pc, op, args, heap0, heap, out, proc, thr, stderr>>

\* ------------------------------------------------------------ call results

NoInt == <<>>

\* The call returned; rp is a returned pointer, ri a returned int (<<v>>).
Returned(h, rp, ri, w) ==
  [status |-> "returned", heap |-> h, ret_ptr |-> rp, ret_int |-> ri,
   err |-> <<>>, wrote |-> w]

\* The process was killed by a fault inside the C library (undefined behaviour).
Fault(h) ==
  [status |-> "fault", heap |-> h, ret_ptr |-> "none", ret_int |-> NoInt,
   err |-> <<>>, wrote |-> {}]

\* -------------------------------------------------------- violation handler

\* error_print: one write(2) to stderr; the result of write is ignored.
error_print(log, msg) == Append(log, msg)

\* A faulty handler, which C9 must tell from the real one: it prints the
\* operation's name before the prefix.
error_with_prefix_msg_swapped(h, api_name, err_msg_prefix) ==
  [status |-> "aborted", heap |-> h, ret_ptr |-> "none", ret_int |-> NoInt,
   err |-> error_print(error_print(error_print(<<>>, api_name), err_msg_prefix), "\n"),
   wrote |-> {}]

\* error_with_prefix_msg: three prints, then abort(); it never returns.
error_with_prefix_msg(h, api_name, err_msg_prefix) ==
  [status |-> "aborted", heap |-> h, ret_ptr |-> "none", ret_int |-> NoInt,
   err |-> error_print(error_print(error_print(<<>>, err_msg_prefix), api_name), "\n"),
   wrote |-> {}]

\* The text snprintf renders: at most 83 + 20 + 20 characters, below the 128
\* of error_msg, so it is never cut.
OverflowMsg(writing_size, destination_size) ==
  "[err] Aborting due to potential buffer overflow, writing size "
    \o ToString(writing_size) \o " to destination "
    \o ToString(destination_size) \o " in: "

buffer_overflow_error_with_size(h, api_name, destination_size, writing_size) ==
  error_with_prefix_msg(h, api_name, OverflowMsg(writing_size, destination_size))

buffer_overflow_error(h, api_name) ==
  error_with_prefix_msg(h, api_name,
    "[err] Aborting due to potential buffer overflow in: ")

buffer_oob_read_error(h, api_name) ==
  error_with_prefix_msg(h, api_name,
    "[err] Aborting due to potential buffer out-of-bounds read in: ")

integer_overflow_error(h, api_name) ==
  error_with_prefix_msg(h, api_name,
    "[err] Aborting due to potential integer overflow in: ")

null_pointer_error(h, api_name) ==
  error_with_prefix_msg(h, api_name,
    "[err] Aborting due to unexpected null pointer in: ")

\* ------------------------------------------------------------ the C library

\* memcpy(dest + off, source, n), dest and source being "dst" and "src" or
\* null.  The set of outcomes: [ok, heap, wrote].
memcpy(h, dest, off, source, n) ==
  IF dest = BAD_PTR \/ source = BAD_PTR
  THEN {[ok |-> FALSE, heap |-> h, wrote |-> {}]}
         \cup (IF n = 0 THEN {[ok |-> TRUE, heap |-> h, wrote |-> {}]} ELSE {})
  ELSE LET copied ==
             [h EXCEPT !.dst = [i \in 1 .. Len(h.dst) |->
                IF i > off /\ i <= off + n THEN h.src[i - off] ELSE h.dst[i]]]
           through == [ok |-> TRUE, heap |-> copied, wrote |-> off .. (off + n - 1)]
       IN  IF off + n <= h.cap
           THEN {through}
           ELSE {through, [ok |-> FALSE, heap |-> h, wrote |-> {}]}

\* The call's result once the library call m is over.
AfterLib(m, rp, ri) ==
  IF m.ok THEN Returned(m.heap, rp, ri, m.wrote) ELSE Fault(m.heap)

\* ------------------------------------------------------------ guarded copy

\* A faulty checked_memcpy, which C3 must tell from the real one: the null
\* check comes before the size check.
checked_memcpy_nullfirst(h, destination, destination_size, source, count) ==
  IF source = BAD_PTR \/ destination = BAD_PTR
  THEN {null_pointer_error(h, "checked_memcpy")}
  ELSE IF destination_size < count
  THEN {buffer_overflow_error_with_size(h, "checked_memcpy", destination_size, count)}
  ELSE {AfterLib(m, destination, NoInt) : m \in memcpy(h, destination, 0, source, count)}

\* A faulty checked_memcpy, which C2 must tell from the real one: it copies
\* one byte too few.
checked_memcpy_offbyone(h, destination, destination_size, source, count) ==
  IF destination_size < count
  THEN {buffer_overflow_error_with_size(h, "checked_memcpy", destination_size, count)}
  ELSE IF source = BAD_PTR \/ destination = BAD_PTR
  THEN {null_pointer_error(h, "checked_memcpy")}
  ELSE {AfterLib(m, destination, NoInt) :
          m \in memcpy(h, destination, 0, source, IF count > 0 THEN count - 1 ELSE 0)}

checked_memcpy(h, destination, destination_size, source, count) ==
  IF destination_size < count
  THEN {buffer_overflow_error_with_size(h, "checked_memcpy", destination_size, count)}
  ELSE IF source = BAD_PTR \/ destination = BAD_PTR
  THEN {null_pointer_error(h, "checked_memcpy")}
  ELSE {AfterLib(m, destination, NoInt) : m \in memcpy(h, destination, 0, source, count)}

checked_memcpy_offset(h, destination, destination_size, offset, source, count) ==
  IF destination_size < count \/ offset >= destination_size
  THEN {buffer_overflow_error_with_size(h, "checked_memcpy_offset",
          SubSz(destination_size, offset), count)}
  ELSE {AfterLib(m, destination, NoInt) :
          m \in memcpy(h, destination, offset, source, count)}

\* A faulty checked_memcpy_robust, which C8 must tell from the real one: the
\* source size is not checked.
checked_memcpy_robust_dstonly(h, destination, destination_size, source, source_size, count) ==
  IF destination_size < count
  THEN {buffer_overflow_error(h, "checked_memcpy_robust")}
  ELSE {AfterLib(m, destination, NoInt) : m \in memcpy(h, destination, 0, source, count)}

checked_memcpy_robust(h, destination, destination_size, source, source_size, count) ==
  IF destination_size < count \/ source_size < count
  THEN {buffer_overflow_error(h, "checked_memcpy_robust")}
  ELSE {AfterLib(m, destination, NoInt) : m \in memcpy(h, destination, 0, source, count)}

\* A faulty try_checked_memcpy, which C1 must tell from the real one: no
\* size check.
try_checked_memcpy_nocheck(h, destination, destination_size, source, count) ==
  {AfterLib(m, "none", <<0>>) : m \in memcpy(h, destination, 0, source, count)}

try_checked_memcpy(h, destination, destination_size, source, count) ==
  IF destination_size < count
  THEN {Returned(h, "none", <<ERR_POTENTIAL_BUFFER_OVERFLOW>>, {})}
  ELSE {AfterLib(m, "none", <<0>>) : m \in memcpy(h, destination, 0, source, count)}

try_checked_memcpy_robust(h, destination, destination_size, source, source_size, count) ==
  IF destination_size < count \/ source_size < count
  THEN {Returned(h, "none", <<ERR_POTENTIAL_BUFFER_OVERFLOW>>, {})}
  ELSE {AfterLib(m, "none", <<0>>) : m \in memcpy(h, destination, 0, source, count)}

\* ------------------------------------------------------------- concatenate

\* strlen: the number of bytes before the first zero byte.
strlen(s) == CHOOSE n \in 0 .. Len(s) - 1 : s[n + 1] = 0 /\ \A i \in 1 .. n : s[i] # 0

\* *(dest + off) = b.  The set of outcomes, as for memcpy.
store(h, dest, off, b) ==
  LET through == [ok |-> TRUE,
                  heap |-> [h EXCEPT !.dst = [h.dst EXCEPT ![off + 1] = b]],
                  wrote |-> {off}]
  IN  IF off < h.cap THEN {through}
      ELSE {through, [ok |-> FALSE, heap |-> h, wrote |-> {}]}

\* memcpy(destination + dest_str_len, source, src_str_len), then the
\* terminator at destination + dest_str_len + src_str_len.
Concatenate(h, destination, source, dest_str_len, src_str_len) ==
  UNION {IF m.ok
         THEN {[ok |-> t.ok, heap |-> t.heap, wrote |-> m.wrote \cup t.wrote] :
                 t \in store(m.heap, destination, dest_str_len + src_str_len, 0)}
         ELSE {m} :
         m \in memcpy(h, destination, dest_str_len, source, src_str_len)}

\* A faulty checked_strcat, which C10 must tell from the real one: the sum
\* of the lengths is not checked for wrap-around.
checked_strcat_nowrapcheck(h, destination, destination_size, source) ==
  LET dest_str_len == strlen(h.dst)
      src_str_len == strlen(h.src)
      tot_str_len == AddSz(dest_str_len, src_str_len)
  IN  IF destination_size = 0
      THEN {buffer_overflow_error_with_size(h, "checked_strcat", destination_size,
              tot_str_len)}
      ELSE IF SubSz(destination_size, 1) < tot_str_len
      THEN {buffer_overflow_error_with_size(h, "checked_strcat",
              SubSz(destination_size, 1), tot_str_len)}
      ELSE {AfterLib(m, destination, NoInt) :
              m \in Concatenate(h, destination, source, dest_str_len, src_str_len)}

checked_strcat(h, destination, destination_size, source) ==
  LET dest_str_len == strlen(h.dst)
      src_str_len == strlen(h.src)
      tot_str_len == AddSz(dest_str_len, src_str_len)
  IN  IF destination_size = 0
      THEN {buffer_overflow_error_with_size(h, "checked_strcat", destination_size,
              tot_str_len)}
      ELSE IF AddSz(dest_str_len, src_str_len) < dest_str_len
      THEN {integer_overflow_error(h, "checked_strcat")}
      ELSE IF SubSz(destination_size, 1) < tot_str_len
      THEN {buffer_overflow_error_with_size(h, "checked_strcat",
              SubSz(destination_size, 1), tot_str_len)}
      ELSE {AfterLib(m, destination, NoInt) :
              m \in Concatenate(h, destination, source, dest_str_len, src_str_len)}

\* A faulty try_checked_strcat, which C5 must tell from the real one: it
\* leaves no room for the terminator.
try_checked_strcat_lenient(h, destination, destination_size, source) ==
  LET dest_str_len == strlen(h.dst)
      src_str_len == strlen(h.src)
  IN  IF destination_size = 0
      THEN {Returned(h, "none", <<ERR_POTENTIAL_BUFFER_OVERFLOW>>, {})}
      ELSE IF AddSz(dest_str_len, src_str_len) < dest_str_len
      THEN {Returned(h, "none", <<ERR_POTENTIAL_INTEGER_OVERFLOW>>, {})}
      ELSE IF destination_size < AddSz(dest_str_len, src_str_len)
      THEN {Returned(h, "none", <<ERR_POTENTIAL_BUFFER_OVERFLOW>>, {})}
      ELSE {AfterLib(m, "none", <<0>>) :
              m \in Concatenate(h, destination, source, dest_str_len, src_str_len)}

try_checked_strcat(h, destination, destination_size, source) ==
  IF destination_size = 0
  THEN {Returned(h, "none", <<ERR_POTENTIAL_BUFFER_OVERFLOW>>, {})}
  ELSE LET dest_str_len == strlen(h.dst)
           src_str_len == strlen(h.src)
       IN  IF AddSz(dest_str_len, src_str_len) < dest_str_len
           THEN {Returned(h, "none", <<ERR_POTENTIAL_INTEGER_OVERFLOW>>, {})}
           ELSE IF SubSz(destination_size, 1) < AddSz(dest_str_len, src_str_len)
           THEN {Returned(h, "none", <<ERR_POTENTIAL_BUFFER_OVERFLOW>>, {})}
           ELSE {AfterLib(m, "none", <<0>>) :
                   m \in Concatenate(h, destination, source, dest_str_len, src_str_len)}

\* ----------------------------------------------------------------- compare

\* A byte read as signed char.
AsSigned(b) == IF b >= 128 THEN b - 256 ELSE b

Sign(x) == IF x < 0 THEN -1 ELSE IF x > 0 THEN 1 ELSE 0

\* The first index in 1 .. n where a and b differ; 0 when there is none.
FirstDiff(a, b, n) ==
  IF \A i \in 1 .. n : a[i] = b[i] THEN 0
  ELSE CHOOSE i \in 1 .. n : a[i] # b[i] /\ \A j \in 1 .. i - 1 : a[j] = b[j]

\* memcmp(ptr1, ptr2, n) on "dst" and "src": bytes compare as unsigned char.
\* The C library fixes the sign of the result only; the values an
\* implementation returns are the difference of the bytes or its sign.
memcmp(h, ptr1, ptr2, n) ==
  LET k == FirstDiff(h.dst, h.src, n)
  IN  IF k = 0 THEN {0}
      ELSE {h.dst[k] - h.src[k], Sign(h.dst[k] - h.src[k])}

\* A faulty checked_memcmp, which C6 must tell from the real one: bytes
\* compare as signed char.
checked_memcmp_signed(h, ptr1, ptr1_size, ptr2, ptr2_size, num) ==
  IF num > ptr1_size \/ num > ptr2_size
  THEN {buffer_oob_read_error(h, "checked_memcmp")}
  ELSE LET k == FirstDiff(h.dst, h.src, num)
       IN  {Returned(h, "none",
              <<IF k = 0 THEN 0 ELSE AsSigned(h.dst[k]) - AsSigned(h.src[k])>>, {})}

checked_memcmp(h, ptr1, ptr1_size, ptr2, ptr2_size, num) ==
  IF num > ptr1_size \/ num > ptr2_size
  THEN {buffer_oob_read_error(h, "checked_memcmp")}
  ELSE {Returned(h, "none", <<v>>, {}) : v \in memcmp(h, ptr1, ptr2, num)}

\* -------------------------------------------------------------------- fill

\* memset(dest, ch, n): ch is converted to unsigned char.
memset(h, dest, ch, n) ==
  IF dest = BAD_PTR
  THEN {[ok |-> FALSE, heap |-> h, wrote |-> {}]}
         \cup (IF n = 0 THEN {[ok |-> TRUE, heap |-> h, wrote |-> {}]} ELSE {})
  ELSE LET filled ==
             [h EXCEPT !.dst = [i \in 1 .. Len(h.dst) |->
                IF i <= n THEN ch % 256 ELSE h.dst[i]]]
           through == [ok |-> TRUE, heap |-> filled, wrote |-> 0 .. (n - 1)]
       IN  IF n <= h.cap
           THEN {through}
           ELSE {through, [ok |-> FALSE, heap |-> h, wrote |-> {}]}

\* A faulty checked_memset, which C7 must tell from the real one: it lets
\* count exceed the size by one.
checked_memset_weak(h, destination, destination_size, ch, count) ==
  IF count > destination_size + 1
  THEN {buffer_overflow_error(h, "checked_memset")}
  ELSE {AfterLib(m, destination, NoInt) : m \in memset(h, destination, ch, count)}

checked_memset(h, destination, destination_size, ch, count) ==
  IF count > destination_size
  THEN {buffer_overflow_error(h, "checked_memset")}
  ELSE {AfterLib(m, destination, NoInt) : m \in memset(h, destination, ch, count)}

\* ----------------------------------------------------------------- inputs

\* A region of n bytes counting up from base.
Ramp(base, n) == [i \in 1 .. n |-> (base + i - 1) % 256]

DstLen == 2 * SizeMod
DstBases == {16, 240}
SrcBases == {66, 200}
Ptrs(region) == {BAD_PTR, region}

NoArgs ==
  [destination |-> "dst", destination_size |-> 0, source |-> "src",
   source_size |-> 0, offset |-> 0, count |-> 0, ch |-> 0]

\* The inputs of the copy family: the destination object has the declared
\* size and is followed by adjacent memory; the source holds SIZE_MAX bytes.
CopyInit(name, offsets, source_sizes) ==
  \E db \in DstBases, sb \in SrcBases, d \in Ptrs("dst"), s \in Ptrs("src"),
     dsz \in SizeT, cnt \in SizeT, off \in offsets, ssz \in source_sizes :
    /\ op = name
    /\ args = [NoArgs EXCEPT !.destination = d, !.destination_size = dsz,
                             !.source = s, !.source_size = ssz,
                             !.offset = off, !.count = cnt]
    /\ heap = [dst |-> Ramp(db, DstLen), src |-> Ramp(sb, SIZE_MAX), cap |-> dsz]

\* The inputs of concatenate: both strings are null-terminated.  The
\* destination object is SizeMod bytes, any of them zero or 'A'; the source
\* is n characters and a terminator, with other bytes after it.
StrBytes == {0, 65}
SrcString(n) == [i \in 1 .. SizeMod |->
                   IF i <= n THEN 66 + (i % 2) ELSE IF i = n + 1 THEN 0 ELSE 99]

StrcatInit(name) ==
  \E d \in {f \in [1 .. SizeMod -> StrBytes] : \E i \in 1 .. SizeMod : f[i] = 0},
     n \in SizeT, dsz \in SizeT :
    /\ op = name
    /\ args = [NoArgs EXCEPT !.destination_size = dsz]
    /\ heap = [dst |-> d \o Ramp(16, SizeMod), src |-> SrcString(n), cap |-> SizeMod]

\* The inputs of compare: ptr1 is "dst", ptr2 is "src", both SIZE_MAX bytes,
\* the leading ones enumerated.  The numbers of args: destination_size is
\* ptr1_size, source_size is ptr2_size, count is num.
CmpBytes == {1, 200}
CmpVar == IF CmpLen < SIZE_MAX THEN CmpLen ELSE SIZE_MAX

CmpInit(name) ==
  \E a \in [1 .. CmpVar -> CmpBytes], b \in [1 .. CmpVar -> CmpBytes],
     sz1 \in SizeT, sz2 \in SizeT, num \in SizeT :
    /\ op = name
    /\ args = [NoArgs EXCEPT !.destination_size = sz1, !.source_size = sz2,
                             !.count = num]
    /\ heap = [dst |-> a \o Ramp(7, SIZE_MAX - CmpVar),
               src |-> b \o Ramp(7, SIZE_MAX - CmpVar), cap |-> SIZE_MAX]

\* The inputs of fill.
FillValues == {0, 65, 255, 321, -1}

FillInit(name) ==
  \E db \in DstBases, d \in Ptrs("dst"), dsz \in SizeT, cnt \in SizeT,
     c \in FillValues :
    /\ op = name
    /\ args = [NoArgs EXCEPT !.destination = d, !.destination_size = dsz,
                             !.count = cnt, !.ch = c]
    /\ heap = [dst |-> Ramp(db, DstLen), src |-> Ramp(66, SIZE_MAX), cap |-> dsz]

NoOut ==
  [status |-> "none", ret_ptr |-> "none", ret_int |-> NoInt, err |-> <<>>,
   wrote |-> {}]

Init ==
  /\ pc = "ready"
  /\ \/ CopyInit("checked_memcpy", {0}, {0})
     \/ CopyInit("checked_memcpy_offset", SizeT, {0})
     \/ CopyInit("checked_memcpy_robust", {0}, SizeT)
     \/ CopyInit("try_checked_memcpy", {0}, {0})
     \/ CopyInit("try_checked_memcpy_robust", {0}, SizeT)
     \/ StrcatInit("checked_strcat")
     \/ StrcatInit("try_checked_strcat")
     \/ CmpInit("checked_memcmp")
     \/ FillInit("checked_memset")
  /\ heap0 = heap
  /\ out = NoOut
  /\ proc = [state |-> "running", sink_ok |-> TRUE]
  /\ thr = <<>>
  /\ stderr = <<>>

\* ---------------------------------------------------------------- actions

\* The call ends as r.
Finish(r) ==
  /\ pc' = "done"
  /\ heap' = r.heap
  /\ out' = [status |-> r.status, ret_ptr |-> r.ret_ptr, ret_int |-> r.ret_int,
             err |-> r.err, wrote |-> r.wrote]
  /\ UNCHANGED <<op, args, heap0, proc, thr, stderr>>

Call_checked_memcpy ==
  /\ pc = "ready" /\ op = "checked_memcpy"
  /\ \E r \in checked_memcpy(heap, args.destination, args.destination_size,
                             args.source, args.count) : Finish(r)

Call_checked_memcpy_offset ==
  /\ pc = "ready" /\ op = "checked_memcpy_offset"
  /\ \E r \in checked_memcpy_offset(heap, args.destination, args.destination_size,
                                    args.offset, args.source, args.count) : Finish(r)

Call_checked_memcpy_robust ==
  /\ pc = "ready" /\ op = "checked_memcpy_robust"
  /\ \E r \in checked_memcpy_robust(heap, args.destination, args.destination_size,
                                    args.source, args.source_size, args.count) : Finish(r)

Call_try_checked_memcpy ==
  /\ pc = "ready" /\ op = "try_checked_memcpy"
  /\ \E r \in try_checked_memcpy(heap, args.destination, args.destination_size,
                                 args.source, args.count) : Finish(r)

Call_try_checked_memcpy_robust ==
  /\ pc = "ready" /\ op = "try_checked_memcpy_robust"
  /\ \E r \in try_checked_memcpy_robust(heap, args.destination, args.destination_size,
                                        args.source, args.source_size, args.count) : Finish(r)

Call_checked_strcat ==
  /\ pc = "ready" /\ op = "checked_strcat"
  /\ \E r \in checked_strcat(heap, args.destination, args.destination_size,
                             args.source) : Finish(r)

Call_try_checked_strcat ==
  /\ pc = "ready" /\ op = "try_checked_strcat"
  /\ \E r \in try_checked_strcat(heap, args.destination, args.destination_size,
                                 args.source) : Finish(r)

Call_checked_memcmp ==
  /\ pc = "ready" /\ op = "checked_memcmp"
  /\ \E r \in checked_memcmp(heap, args.destination, args.destination_size,
                             args.source, args.source_size, args.count) : Finish(r)

Call_checked_memset ==
  /\ pc = "ready" /\ op = "checked_memset"
  /\ \E r \in checked_memset(heap, args.destination, args.destination_size,
                             args.ch, args.count) : Finish(r)

Next ==
  \/ Call_checked_memcpy
  \/ Call_checked_memcpy_offset
  \/ Call_checked_memcpy_robust
  \/ Call_try_checked_memcpy
  \/ Call_try_checked_memcpy_robust
  \/ Call_checked_strcat
  \/ Call_try_checked_strcat
  \/ Call_checked_memcmp
  \/ Call_checked_memset

Spec == Init /\ [][Next]_vars

\* ------------------------------------------------------ concurrent callers

\* Each thread makes one call of an abort-family function on buffers of its
\* own.  The call is not atomic: it validates, and then either makes the
\* three writes of error_with_prefix_msg and calls abort(), or delegates to
\* the C library.  abort() ends the process, and with it every thread.

Threads == 1 .. NThreads

\* The function o called with arguments a on memory h.
Invoke(o, h, a) ==
  CASE o = "checked_memcpy" ->
         checked_memcpy(h, a.destination, a.destination_size, a.source, a.count)
    [] o = "checked_memset" ->
         checked_memset(h, a.destination, a.destination_size, a.ch, a.count)

ThreadOps == {"checked_memcpy", "checked_memset"}

\* The calls a thread may make: within the declared sizes, or past them.
ThreadCalls ==
  {[op |-> o,
    args |-> [NoArgs EXCEPT !.destination_size = 2, !.source_size = 2,
                            !.count = c, !.ch = 65],
    heap0 |-> [dst |-> Ramp(16, DstLen), src |-> Ramp(66, SIZE_MAX), cap |-> 2]] :
     o \in ThreadOps, c \in {1, SIZE_MAX}}

ConcInit ==
  /\ pc = "idle"
  /\ op = "none"
  /\ args = NoArgs
  /\ heap = [dst |-> <<>>, src |-> <<>>, cap |-> 0]
  /\ heap0 = heap
  /\ out = NoOut
  /\ \E ok \in BOOLEAN : proc = [state |-> "running", sink_ok |-> ok]
  /\ thr \in [Threads -> {[pc |-> "ready", call |-> c, heap |-> c.heap0,
                           todo |-> <<>>, printed |-> <<>>, result |-> NoOut] :
                            c \in ThreadCalls}]
  /\ stderr = <<>>

Seq_unchanged == UNCHANGED <<pc, op, args, heap0, heap, out>>

\* The guard of the function: a violation is found, or the call may delegate.
T_Validate(t) ==
  /\ proc.state = "running"
  /\ thr[t].pc = "ready"
  /\ \E r \in Invoke(thr[t].call.op, thr[t].heap, thr[t].call.args) :
       thr' = [thr EXCEPT ![t].pc = IF r.status = "aborted" THEN "violation"
                                                             ELSE "delegate",
                          ![t].todo = r.err,
                          ![t].result = r]
  /\ UNCHANGED <<proc, stderr>>
  /\ Seq_unchanged

\* One error_print of error_with_prefix_msg: a write to stderr, whose
\* failure is ignored.
T_Print(t) ==
  /\ proc.state = "running"
  /\ thr[t].pc = "violation"
  /\ thr[t].todo # <<>>
  /\ thr' = [thr EXCEPT ![t].todo = Tail(thr[t].todo),
                        ![t].printed = Append(thr[t].printed, Head(thr[t].todo))]
  /\ stderr' = IF proc.sink_ok THEN Append(stderr, <<t, Head(thr[t].todo)>>)
                               ELSE stderr
  /\ UNCHANGED proc
  /\ Seq_unchanged

\* abort(): the process ends.
T_Abort(t) ==
  /\ proc.state = "running"
  /\ thr[t].pc = "violation"
  /\ thr[t].todo = <<>>
  /\ proc' = [proc EXCEPT !.state = "terminated"]
  /\ thr' = [thr EXCEPT ![t].pc = "aborted"]
  /\ UNCHANGED stderr
  /\ Seq_unchanged

\* The call of the C library, and the return to the caller.
T_Delegate(t) ==
  /\ proc.state = "running"
  /\ thr[t].pc = "delegate"
  /\ thr' = [thr EXCEPT ![t].pc = "returned", ![t].heap = thr[t].result.heap]
  /\ UNCHANGED <<proc, stderr>>
  /\ Seq_unchanged

T_Step(t) == T_Validate(t) \/ T_Print(t) \/ T_Abort(t) \/ T_Delegate(t)

ConcNext ==
  \/ \E t \in Threads : T_Validate(t)
  \/ \E t \in Threads : T_Print(t)
  \/ \E t \in Threads : T_Abort(t)
  \/ \E t \in Threads : T_Delegate(t)

\* A thread that can run is scheduled, and its write to stderr returns.
ConcSpec == ConcInit /\ [][ConcNext]_vars /\ \A t \in Threads : WF_vars(T_Step(t))

\* ----------------------------------------------------------------- claims

Done(name) == pc = "done" /\ op = name
NonNull == args.destination # BAD_PTR /\ args.source # BAD_PTR

\* The first n bytes of the destination are the first n bytes of the source
\* as they were, and every other byte of "dst" is as it was.
CopiedExactly(n) ==
  /\ \A i \in 1 .. n : heap.dst[i] = heap0.src[i]
  /\ \A i \in n + 1 .. Len(heap.dst) : heap.dst[i] = heap0.dst[i]
  /\ Len(heap.dst) = Len(heap0.dst)

\* The diagnostic of a violation: the prefix, the operation's name, a newline.
Diagnostic(prefix, name) == <<prefix, name, "\n">>

\* C1: try_checked_memcpy and try_checked_memcpy_robust never raise a
\* violation; when count exceeds the destination capacity (robust: or the
\* source capacity) they return ERR_POTENTIAL_BUFFER_OVERFLOW (34) and
\* memory is as before the call; otherwise, on buffers that exist, they
\* return 0 with the first count source bytes copied to the destination.
C1_TryCopyReturnsCode ==
  (pc = "done" /\ op \in {"try_checked_memcpy", "try_checked_memcpy_robust"}) =>
    LET over == \/ args.count > args.destination_size
                \/ (op = "try_checked_memcpy_robust" /\ args.count > args.source_size)
    IN  /\ out.status # "aborted"
        /\ out.err = <<>>
        /\ over => /\ out.status = "returned"
                   /\ out.ret_int = <<34>>
                   /\ out.ret_int # <<0>>
                   /\ heap = heap0
                   /\ out.wrote = {}
        /\ (~over /\ NonNull) => /\ out.status = "returned"
                                 /\ out.ret_int = <<0>>
                                 /\ CopiedExactly(args.count)

C1_Witness ==
  /\ Done("try_checked_memcpy")
  /\ NonNull
  /\ args.destination_size = 2
  /\ args.count = 3
  /\ out.ret_int = <<34>>
  /\ heap.dst = heap0.dst

\* C2: checked_memcpy with non-null source and destination and
\* count <= destination_size copies exactly count bytes, leaves the source
\* alone and returns the destination.
C2_CopyVerbatim ==
  (Done("checked_memcpy") /\ NonNull /\ args.count <= args.destination_size) =>
    /\ out.status = "returned"
    /\ out.ret_ptr = args.destination
    /\ CopiedExactly(args.count)
    /\ out.wrote = 0 .. (args.count - 1)
    /\ heap.src = heap0.src

C2_Witness ==
  /\ Done("checked_memcpy")
  /\ NonNull
  /\ args.count = 2
  /\ args.destination_size = 3
  /\ out.status = "returned"
  /\ heap.dst[2] = heap0.src[2]
  /\ heap.dst # heap0.dst

\* C3: checked_memcpy checks the size first: count > destination_size
\* raises the buffer-overflow violation with writing size count and
\* destination size destination_size, whatever the pointers; otherwise a
\* null source or destination raises the null-pointer violation.  Neither
\* writes a byte.
C3_CopyValidationOrder ==
  Done("checked_memcpy") =>
    /\ args.count > args.destination_size =>
         /\ out.status = "aborted"
         /\ out.err = Diagnostic(
              "[err] Aborting due to potential buffer overflow, writing size "
                \o ToString(args.count) \o " to destination "
                \o ToString(args.destination_size) \o " in: ",
              "checked_memcpy")
         /\ heap = heap0
         /\ out.wrote = {}
    /\ (args.count <= args.destination_size /\ ~NonNull) =>
         /\ out.status = "aborted"
         /\ out.err = Diagnostic(
              "[err] Aborting due to unexpected null pointer in: ", "checked_memcpy")
         /\ heap = heap0
         /\ out.wrote = {}

C3_Witness ==
  /\ Done("checked_memcpy")
  /\ args.source = BAD_PTR
  /\ args.count = 3
  /\ args.destination_size = 1
  /\ out.status = "aborted"
  /\ out.err[1] = "[err] Aborting due to potential buffer overflow, writing size 3 to destination 1 in: "

\* C4: whenever checked_memcpy_offset returns, every byte it wrote is at an
\* index in [offset, offset + count) with offset + count <= destination_size,
\* and no byte at an index >= destination_size has changed.
C4_OffsetCopyStaysInBounds ==
  (Done("checked_memcpy_offset") /\ out.status = "returned") =>
    /\ args.offset + args.count <= args.destination_size
    /\ \A i \in out.wrote :
         i >= args.offset /\ i < args.offset + args.count /\ i < args.destination_size
    /\ \A i \in args.destination_size + 1 .. Len(heap.dst) : heap.dst[i] = heap0.dst[i]

\* The strings of a concatenate call, before it.
DestLen == strlen(heap0.dst)
SrcLen == strlen(heap0.src)
Strcat == {"checked_strcat", "try_checked_strcat"}
Fits == args.destination_size > 0 /\ DestLen + SrcLen <= args.destination_size - 1
Wraps == DestLen + SrcLen >= SizeMod

\* The destination holds its old string, then the source string, then one
\* terminator; the bytes after the terminator are as they were.
Concatenated ==
  /\ \A i \in 1 .. DestLen : heap.dst[i] = heap0.dst[i]
  /\ \A i \in 1 .. SrcLen : heap.dst[DestLen + i] = heap0.src[i]
  /\ heap.dst[DestLen + SrcLen + 1] = 0
  /\ \A i \in DestLen + SrcLen + 2 .. Len(heap.dst) : heap.dst[i] = heap0.dst[i]
  /\ Len(heap.dst) = Len(heap0.dst)
  /\ heap.src = heap0.src

OverflowPrefixes ==
  {"[err] Aborting due to potential buffer overflow, writing size "
     \o ToString(w) \o " to destination " \o ToString(d) \o " in: " :
     w \in SizeT, d \in SizeT}

\* How a concatenate call reports a buffer overflow, an integer overflow.
ReportsBufferOverflow ==
  IF op = "checked_strcat"
  THEN /\ out.status = "aborted"
       /\ out.err[1] \in OverflowPrefixes
       /\ out.err = Diagnostic(out.err[1], "checked_strcat")
  ELSE out.status = "returned" /\ out.ret_int = <<34>>

ReportsIntegerOverflow ==
  IF op = "checked_strcat"
  THEN /\ out.status = "aborted"
       /\ out.err = Diagnostic(
            "[err] Aborting due to potential integer overflow in: ", "checked_strcat")
  ELSE out.status = "returned" /\ out.ret_int = <<75>>

ConcatenateSucceeds ==
  /\ out.status = "returned"
  /\ Concatenated
  /\ IF op = "checked_strcat" THEN out.ret_ptr = args.destination
                              ELSE out.ret_int = <<0>>

\* C5 as stated: when strlen(dest) + strlen(src) <= destination_size - 1 the
\* strings are concatenated; when the sum equals or exceeds destination_size,
\* or destination_size = 0, a buffer overflow is reported (the violation, or
\* the code 34) and no byte is modified.
C5_ConcatenateAsStated ==
  (pc = "done" /\ op \in Strcat) =>
    /\ Fits => ConcatenateSucceeds
    /\ ~Fits => ReportsBufferOverflow /\ heap = heap0

\* C5, amended: as stated while the sum is at most SIZE_MAX or
\* destination_size = 0; when the sum exceeds SIZE_MAX and destination_size
\* is not 0, the integer overflow is reported instead (the violation, or the
\* code 75), and still no byte is modified.
C5_Concatenate ==
  (pc = "done" /\ op \in Strcat) =>
    /\ Fits => ConcatenateSucceeds
    /\ (~Fits /\ (~Wraps \/ args.destination_size = 0)) =>
         ReportsBufferOverflow /\ heap = heap0
    /\ (Wraps /\ args.destination_size # 0) =>
         ReportsIntegerOverflow /\ heap = heap0

C5_Witness ==
  /\ Done("try_checked_strcat")
  /\ DestLen = 1
  /\ SrcLen = 1
  /\ args.destination_size = 3
  /\ out.ret_int = <<0>>
  /\ heap.dst[2] = heap0.src[1]
  /\ heap.dst[3] = 0
  /\ heap0.dst[3] # 0

\* C6: checked_memcmp raises the out-of-bounds-read violation when num
\* exceeds either size; otherwise it returns 0 exactly when the first num
\* bytes agree, and a value whose sign is that of the first differing byte
\* of operand 1 minus that of operand 2, both read as unsigned.  The operands
\* are not modified.
C6_Compare ==
  Done("checked_memcmp") =>
    /\ heap = heap0
    /\ IF args.count > args.destination_size \/ args.count > args.source_size
       THEN /\ out.status = "aborted"
            /\ out.ret_int = NoInt
            /\ out.err = Diagnostic(
                 "[err] Aborting due to potential buffer out-of-bounds read in: ",
                 "checked_memcmp")
       ELSE /\ out.status = "returned"
            /\ Len(out.ret_int) = 1
            /\ LET v == out.ret_int[1]
                   same == \A i \in 1 .. args.count : heap0.dst[i] = heap0.src[i]
               IN  /\ (v = 0) <=> same
                   /\ ~same =>
                        LET k == CHOOSE i \in 1 .. args.count :
                                   /\ heap0.dst[i] # heap0.src[i]
                                   /\ \A j \in 1 .. i - 1 : heap0.dst[j] = heap0.src[j]
                        IN  /\ (v < 0) <=> (heap0.dst[k] < heap0.src[k])
                            /\ (v > 0) <=> (heap0.dst[k] > heap0.src[k])

C6_Witness ==
  /\ Done("checked_memcmp")
  /\ args.count = 2
  /\ heap0.dst[1] = heap0.src[1]
  /\ heap0.dst[2] = 1
  /\ heap0.src[2] = 200
  /\ out.status = "returned"
  /\ out.ret_int[1] < 0

\* C7: checked_memset with count <= destination_size sets the first count
\* bytes to the low 8 bits of ch, leaves the others alone and returns the
\* destination; with count > destination_size it raises the overflow
\* violation and writes nothing.
C7_Fill ==
  Done("checked_memset") =>
    /\ (args.count <= args.destination_size /\ args.destination # BAD_PTR) =>
         /\ out.status = "returned"
         /\ out.ret_ptr = args.destination
         /\ \A i \in 1 .. args.count : heap.dst[i] = args.ch % 256
         /\ \A i \in args.count + 1 .. Len(heap.dst) : heap.dst[i] = heap0.dst[i]
         /\ Len(heap.dst) = Len(heap0.dst)
    /\ args.count > args.destination_size =>
         /\ out.status = "aborted"
         /\ out.err = Diagnostic(
              "[err] Aborting due to potential buffer overflow in: ", "checked_memset")
         /\ heap = heap0
         /\ out.wrote = {}

C7_Witness ==
  /\ Done("checked_memset")
  /\ args.ch = 321
  /\ args.count = 2
  /\ args.destination_size = 3
  /\ out.status = "returned"
  /\ heap.dst[1] = 65
  /\ heap.dst[2] = 65
  /\ heap.dst[3] = heap0.dst[3]

\* The outcomes of the other family's function on the same arguments and memory.
Counterpart ==
  CASE op = "try_checked_memcpy" ->
         checked_memcpy(heap0, args.destination, args.destination_size,
                        args.source, args.count)
    [] op = "checked_memcpy" ->
         try_checked_memcpy(heap0, args.destination, args.destination_size,
                            args.source, args.count)
    [] op = "try_checked_memcpy_robust" ->
         checked_memcpy_robust(heap0, args.destination, args.destination_size,
                               args.source, args.source_size, args.count)
    [] op = "checked_memcpy_robust" ->
         try_checked_memcpy_robust(heap0, args.destination, args.destination_size,
                                   args.source, args.source_size, args.count)

CopyPairs == {"try_checked_memcpy", "checked_memcpy", "try_checked_memcpy_robust",
              "checked_memcpy_robust"}

\* The call succeeded: a try function returned 0, an aborting one returned.
Succeeded(o, r) ==
  /\ r.status = "returned"
  /\ o \in {"try_checked_memcpy", "try_checked_memcpy_robust"} => r.ret_int = <<0>>

CounterpartOf(o) ==
  CASE o = "try_checked_memcpy" -> "checked_memcpy"
    [] o = "checked_memcpy" -> "try_checked_memcpy"
    [] o = "try_checked_memcpy_robust" -> "checked_memcpy_robust"
    [] o = "checked_memcpy_robust" -> "try_checked_memcpy_robust"

\* A call and its counterpart in the other family succeed together, and then
\* leave the same memory.
SameValidation ==
  /\ Succeeded(op, out) <=> \E r \in Counterpart : Succeeded(CounterpartOf(op), r)
  /\ Succeeded(op, out) =>
       \A r \in Counterpart : Succeeded(CounterpartOf(op), r) => r.heap = heap

C10_LengthOverflow ==
  (pc = "done" /\ op \in Strcat /\ args.destination_size # 0) =>
    /\ Wraps => /\ ReportsIntegerOverflow
                /\ heap = heap0
                /\ out.wrote = {}
                /\ out.ret_int \notin {<<0>>, <<34>>}
    /\ ~Wraps => /\ out.ret_int # <<75>>
                 /\ (out.status = "aborted" =>
                       out.err[1] # "[err] Aborting due to potential integer overflow in: ")

C10_Witness ==
  /\ Done("try_checked_strcat")
  /\ DestLen = SIZE_MAX
  /\ SrcLen = 1
  /\ args.destination_size = 2
  /\ out.ret_int = <<75>>
  /\ heap = heap0

\* The three texts a violating thread prints, in order.
InOrder(printed, name) ==
  /\ Len(printed) <= 3
  /\ Len(printed) >= 1 => printed[1] \notin {name, "\n"}
  /\ Len(printed) >= 2 => printed[2] = name
  /\ Len(printed) >= 3 => printed[3] = "\n"

\* A violating thread prints in order and never writes its destination.
ViolatorPrintsInOrder ==
  \A t \in Threads :
    thr[t].pc \in {"violation", "aborted"} =>
      /\ InOrder(thr[t].printed, thr[t].call.op)
      /\ thr[t].heap = thr[t].call.heap0
      /\ proc.sink_ok =>
           [i \in 1 .. Len(thr[t].printed) |-> <<t, thr[t].printed[i]>>]
             = SelectSeq(stderr, LAMBDA m : m[1] = t)

\* The process ends only by the abort() of a thread that printed all three.
TerminatedAfterDiagnostic ==
  proc.state = "terminated" =>
    \E t \in Threads :
      /\ thr[t].pc = "aborted"
      /\ Len(thr[t].printed) = 3
      /\ InOrder(thr[t].printed, thr[t].call.op)

\* C9: a call that finds a violation prints the prefix, the operation's
\* name and a newline, in this order, and then the process is terminated;
\* once it is, no thread takes a step; the violating call never writes.
C9_ViolationEndsProcess ==
  /\ [](ViolatorPrintsInOrder /\ TerminatedAfterDiagnostic)
  /\ [][proc.state = "running"]_vars
  /\ [][\A t \in Threads : thr[t].pc = "violation" => thr'[t].heap = thr[t].heap]_vars
  /\ ((\E t \in Threads : thr[t].pc = "violation") ~> (proc.state = "terminated"))

C9_Witness ==
  /\ proc.state = "terminated"
  /\ thr[1].pc = "aborted"
  /\ thr[1].printed[2] = "checked_memset"
  /\ thr[2].pc = "delegate"
  /\ thr[2].heap = thr[2].call.heap0
  /\ thr[2].result.heap # thr[2].heap

====
